---- MODULE Spec2Model ----
(***************************************************************************)
(* Model of src/app.py: the ledger analysis session.  A ledger (DataFrame  *)
(* without header, columns addressed by position) is uploaded, and the     *)
(* five revenue tabs each call calculate_revenue_by_keyword on it.         *)
(*                                                                         *)
(* Text is a sequence of characters.  Each CJK character of the source is  *)
(* written as one romanised token:                                         *)
(*   dan hai   = the RouteA keyword (line 10)                              *)
(*   an keng   = the RouteB keyword (line 12)                              *)
(*   huan zhuang = the RouteC keyword (line 14)                            *)
(*   san ying1 = the RouteD keyword (line 16)                              *)
(*   guang gao shou ru        = advertising revenue (line 136)             *)
(*   ke yun shou ru           = passenger revenue (lines 75, 180)          *)
(*   zu lin shou ru           = lease revenue (line 194)                   *)
(*   zheng fu bu zhu shou ru  = government subsidy revenue (line 208)      *)
(*   shi xiang ying2 ye shou ru = miscellaneous revenue (line 222)         *)
(*                                                                         *)
(* Amounts are integers counting HALF currency units, so that the float    *)
(* division "/ 2" of the redistribution is exact on whole-unit ledger      *)
(* values exactly as it is in binary floating point.                       *)
(***************************************************************************)
EXTENDS Integers, Sequences, FiniteSets, TLC

VARIABLES pc, tab, df, shown

vars == <<pc, tab, df, shown>>

\* ------------------------------------------------------------------ bounds
MaxRows == 2
MaxCols == 11

\* ------------------------------------------------------- program constants
SearchWindow == 10
ColC == 2
ColD == 3
ColF == 5
ColDebit == 6
ColCredit == 7

\* --------------------------------------------------------------- cells
\* An untyped spreadsheet cell: a number, a string, or blank (NaN).
Num(n) == [t |-> "num", v |-> n, s |-> <<>>]
Txt(s) == [t |-> "str", v |-> 0, s |-> s]
NaN == [t |-> "nan", v |-> 0, s |-> <<>>]

Digits == <<"0", "1", "2", "3", "4", "5", "6", "7", "8", "9">>

DigitVal(ch) == CHOOSE d \in 0..9 : Digits[d + 1] = ch

IsDigit(ch) == \E d \in 0..9 : Digits[d + 1] = ch

RECURSIVE ToDigits(_)
ToDigits(n) ==
    IF n < 10 THEN <<Digits[n + 1]>>
    ELSE Append(ToDigits(n \div 10), Digits[(n % 10) + 1])

\* str(cell), as .astype(str) renders it.
AsStr(c) ==
    CASE c.t = "str" -> c.s
      [] c.t = "nan" -> <<"n", "a", "n">>
      [] c.t = "num" -> IF c.v < 0 THEN <<"-">> \o ToDigits(0 - c.v)
                        ELSE ToDigits(c.v)

RECURSIVE ParseDigits(_, _)
ParseDigits(s, acc) ==
    IF s = <<>> THEN acc
    ELSE ParseDigits(Tail(s), acc * 10 + DigitVal(Head(s)))

IsNumericText(s) ==
    LET body == IF s # <<>> /\ Head(s) = "-" THEN Tail(s) ELSE s
    IN body # <<>> /\ \A i \in 1..Len(body) : IsDigit(body[i])

\* pd.to_numeric(..., errors='raise'): the default, raising on text.
to_numeric_raise(c) ==
    CASE c.t = "num" -> [raised |-> FALSE, isnan |-> FALSE, v |-> 2 * c.v]
      [] c.t = "nan" -> [raised |-> FALSE, isnan |-> TRUE, v |-> 0]
      [] c.t = "str" ->
            IF IsNumericText(c.s)
            THEN [raised |-> FALSE, isnan |-> FALSE,
                  v |-> IF Head(c.s) = "-"
                        THEN 0 - 2 * ParseDigits(Tail(c.s), 0)
                        ELSE 2 * ParseDigits(c.s, 0)]
            ELSE [raised |-> TRUE, isnan |-> TRUE, v |-> 0]

\* pd.to_numeric(..., errors='coerce'): a number stays, a numeric string is
\* parsed, anything else becomes NaN.  v is in half units.
to_numeric(c) ==
    CASE c.t = "num" -> [raised |-> FALSE, isnan |-> FALSE, v |-> 2 * c.v]
      [] c.t = "nan" -> [raised |-> FALSE, isnan |-> TRUE, v |-> 0]
      [] c.t = "str" ->
            IF IsNumericText(c.s)
            THEN [raised |-> FALSE, isnan |-> FALSE,
                  v |-> IF Head(c.s) = "-"
                        THEN 0 - 2 * ParseDigits(Tail(c.s), 0)
                        ELSE 2 * ParseDigits(c.s, 0)]
            ELSE [raised |-> FALSE, isnan |-> TRUE, v |-> 0]

\* .fillna(0)
fillna0(x) == IF x.isnan THEN 0 ELSE x.v

\* --------------------------------------------------------------- text
\* kw in text (substring test), also Series.str.contains with a literal.
Contains(text, kw) ==
    \E i \in 1..(Len(text) - Len(kw) + 1) : SubSeq(text, i, i + Len(kw) - 1) = kw

RECURSIVE LStrip(_)
LStrip(s) == IF s # <<>> /\ Head(s) = " " THEN LStrip(Tail(s)) ELSE s

RECURSIVE RStrip(_)
RStrip(s) ==
    IF s # <<>> /\ s[Len(s)] = " " THEN RStrip(SubSeq(s, 1, Len(s) - 1)) ELSE s

Strip(s) == RStrip(LStrip(s))

\* ------------------------------------------------------ route labels
RouteA == "RouteA"
RouteB == "RouteB"
RouteC == "RouteC"
RouteD == "RouteD"
Unassigned == "Unassigned"

KwRouteA == <<"dan", "hai">>
KwRouteB == <<"an", "keng">>
KwRouteC == <<"huan", "zhuang">>
KwRouteD == <<"san", "ying1">>

\* get_route_label with the RouteB test placed before the RouteA test.
get_route_label_swapped(text) ==
    LET t == Strip(text)
    IN IF Contains(t, KwRouteB) THEN RouteB
       ELSE IF Contains(t, KwRouteA) THEN RouteA
       ELSE IF Contains(t, KwRouteC) THEN RouteC
       ELSE IF Contains(t, KwRouteD) THEN RouteD
       ELSE Unassigned

get_route_label(text) ==
    LET t == Strip(text)
    IN IF Contains(t, KwRouteA) THEN RouteA
       ELSE IF Contains(t, KwRouteB) THEN RouteB
       ELSE IF Contains(t, KwRouteC) THEN RouteC
       ELSE IF Contains(t, KwRouteD) THEN RouteD
       ELSE Unassigned

custom_order == <<RouteA, RouteB, RouteC, RouteD, Unassigned>>

\* ------------------------------------------------- category keywords
KwAd == <<"guang", "gao", "shou", "ru">>
KwTicket == <<"ke", "yun", "shou", "ru">>
KwRent == <<"zu", "lin", "shou", "ru">>
KwGov == <<"zheng", "fu", "bu", "zhu", "shou", "ru">>
KwMisc == <<"shi", "xiang", "ying2", "ye", "shou", "ru">>

\* The keyword each tab passes, in script order.
TabKeyword == <<KwAd, KwTicket, KwRent, KwGov, KwMisc>>

\* ------------------------------------------------------- the DataFrame
\* df = [ncols, rows]; every row is a sequence of ncols cells.  Column
\* position k (zero-based, as .iloc[:, k]) is element k + 1 of a row.
InRange(cells, k) == k < Len(cells)

Iloc(cells, k) == cells[k + 1]

\* df.iloc[:, col].astype(str).str.contains(kw).any()
ColumnHas(d, col, kw) ==
    \E r \in 1..Len(d.rows) : Contains(AsStr(Iloc(d.rows[r], col)), kw)

\* Lines 28-34: scan columns 0..9 in order; df.iloc[:, col] raises
\* IndexError as soon as col is not a column of the frame.
RECURSIVE LocateFrom(_, _, _)
LocateFrom(d, kw, col) ==
    IF col >= SearchWindow THEN [raised |-> FALSE, idx |-> -1]
    ELSE IF col >= d.ncols THEN [raised |-> TRUE, idx |-> -1]
    ELSE IF ColumnHas(d, col, kw) THEN [raised |-> FALSE, idx |-> col]
    ELSE LocateFrom(d, kw, col + 1)

Locate(d, kw) == LocateFrom(d, kw, 0)

\* A row filter that keeps a row only when the cell equals the keyword.
RowMaskExact(cells, col, kw) == AsStr(Iloc(cells, col)) = kw

\* Line 40: the mask of one row.
RowMask(cells, col, kw) == Contains(AsStr(Iloc(cells, col)), kw)

\* Line 41: df[mask].copy()
FilterRows(d, col, kw) == SelectSeq(d.rows, LAMBDA cells : RowMask(cells, col, kw))

\* Lines 47-69 on one row.  New named columns are appended to the frame as
\* they are assigned, so the positional reads of lines 57-62 see them.
\* raised = an exception inside the try block.
NoRecord ==
    [src |-> <<>>, info |-> <<>>, summary |-> <<>>, debit |-> 0, credit |-> 0,
     amount |-> 0, route |-> ""]

PrepareFields(cells) ==
    IF ~InRange(cells, ColC) \/ ~InRange(cells, ColD) \/ ~InRange(cells, ColF)
    THEN [raised |-> TRUE, rec |-> NoRecord]
    ELSE
      LET text_col_c == AsStr(Iloc(cells, ColC))
          text_col_d == AsStr(Iloc(cells, ColD))
          text_col_f == AsStr(Iloc(cells, ColF))
          info == text_col_c \o <<" ">> \o text_col_d \o <<" ">> \o text_col_f
          cells1 == cells \o <<Txt(info), Txt(text_col_f)>>
      IN IF ~InRange(cells1, ColDebit)
         THEN [raised |-> TRUE, rec |-> NoRecord]
         ELSE
           LET cells2 == Append(cells1, Iloc(cells1, ColDebit))
           IN IF ~InRange(cells2, ColCredit)
              THEN [raised |-> TRUE, rec |-> NoRecord]
              ELSE
                LET cells3 == Append(cells2, Iloc(cells2, ColCredit))
                    d == to_numeric(Iloc(cells3, ColDebit))
                    c == to_numeric(Iloc(cells3, ColCredit))
                    debit == fillna0(d)
                    credit == fillna0(c)
                IN IF d.raised \/ c.raised
                   THEN [raised |-> TRUE, rec |-> NoRecord]
                   ELSE [raised |-> FALSE,
                         rec |-> [src |-> cells, info |-> info,
                                  summary |-> text_col_f,
                                  debit |-> debit, credit |-> credit,
                                  amount |-> credit - debit, route |-> ""]]

\* Line 72: revenue_df[route] = info.apply(get_route_label)
Classify(rec) == [rec EXCEPT !.route = get_route_label(rec.info)]

MapSeq(s, Op(_)) == [i \in 1..Len(s) |-> Op(s[i])]

\* "// 2" on whole currency units instead of "/ 2".
HalfFloor(x) == 2 * ((x \div 2) \div 2)

\* Lines 85-87, 93-95: x / 2 (x in half units of a whole-unit amount).
Half(x) == x \div 2

MarkA == <<" ", "(", "fen", "tan", "-", "dan", "hai", ")">>
MarkB == <<" ", "(", "fen", "tan", "-", "an", "keng", ")">>

\* Lines 83-88 / 91-96: one half of a row to split.
SplitPart(rec, label, mark) ==
    [rec EXCEPT !.route = label,
                !.amount = Half(rec.amount),
                !.debit = Half(rec.debit),
                !.credit = Half(rec.credit),
                !.summary = rec.summary \o mark]

\* The passenger test of line 75 dropped: every category is split.
IsTicketAlways(kw) == TRUE

\* Line 75: target_keyword == passenger revenue
IsTicket(kw) == kw = KwTicket

\* Lines 75-98.
Redistribute(revenue_df, kw) ==
    IF IsTicket(kw) /\ \E i \in 1..Len(revenue_df) : revenue_df[i].route = Unassigned
    THEN LET rows_to_split == SelectSeq(revenue_df, LAMBDA r : r.route = Unassigned)
             kept == SelectSeq(revenue_df, LAMBDA r : r.route # Unassigned)
             dh_part == MapSeq(rows_to_split, LAMBDA r : SplitPart(r, RouteA, MarkA))
             ak_part == MapSeq(rows_to_split, LAMBDA r : SplitPart(r, RouteB, MarkB))
         IN kept \o dh_part \o ak_part
    ELSE revenue_df

RECURSIVE GroupSum(_, _)
\* Line 101: groupby(route)[amount].sum() for one label.
GroupSum(revenue_df, label) ==
    IF revenue_df = <<>> THEN 0
    ELSE (IF Head(revenue_df).route = label THEN Head(revenue_df).amount ELSE 0)
         + GroupSum(Tail(revenue_df), label)

RECURSIVE SumSeq(_)
SumSeq(s) == IF s = <<>> THEN 0 ELSE Head(s) + SumSeq(Tail(s))

\* A reindex whose last label does not match the classifier's label, so the
\* Unassigned group is dropped and filled with 0.
AggregateMislabel(revenue_df) ==
    [i \in 1..5 |-> IF i = 5 THEN 0 ELSE GroupSum(revenue_df, custom_order[i])]

\* Lines 101-103: the per-route sums in custom_order, absent routes 0.
Aggregate(revenue_df) ==
    [i \in 1..Len(custom_order) |-> GroupSum(revenue_df, custom_order[i])]

None == <<>>

Outcome(kind, kw, result, total, final, matched, classified) ==
    [kind |-> kind, keyword |-> kw, result |-> result, total_amount |-> total,
     revenue_df |-> final, matched |-> matched, classified |-> classified]

\* Lines 23-109.  kind: Success, ColumnNotFound, NoMatchingRows,
\* FieldReadError are the returned outcomes; Raised is an exception that
\* leaves the function.  matched (df[mask]) and classified (revenue_df after
\* line 72) record the intermediate frames.
calculate_revenue_by_keyword(d, target_keyword) ==
    LET loc == Locate(d, target_keyword)
    IN IF loc.raised
       THEN Outcome("Raised", target_keyword, None, 0, <<>>, <<>>, <<>>)
       ELSE IF loc.idx = -1
       THEN Outcome("ColumnNotFound", target_keyword, None, 0, <<>>, <<>>, <<>>)
       ELSE
         LET matched == FilterRows(d, loc.idx, target_keyword)
         IN IF matched = <<>>
            THEN Outcome("NoMatchingRows", target_keyword, None, 0, <<>>, <<>>, <<>>)
            ELSE
              LET prepared == MapSeq(matched, PrepareFields)
              IN IF \E i \in 1..Len(prepared) : prepared[i].raised
                 THEN Outcome("FieldReadError", target_keyword, None, 0,
                              <<>>, matched, <<>>)
                 ELSE
                   LET classified == MapSeq(prepared, LAMBDA p : Classify(p.rec))
                       final == Redistribute(classified, target_keyword)
                       result == Aggregate(final)
                       total_amount == SumSeq(result)
                   IN Outcome("Success", target_keyword, result, total_amount,
                              final, matched, classified)

\* ------------------------------------------------------------ ledgers
\* A full-width row: the account text at position pos, department at 2,
\* summary at 5, debit at 6, credit at 7, every other cell blank.
MkRow(pos, acct, dept, summ, debit, credit) ==
    [i \in 1..MaxCols |->
        IF i - 1 = pos THEN acct
        ELSE IF i - 1 = ColC THEN dept
        ELSE IF i - 1 = ColF THEN summ
        ELSE IF i - 1 = ColDebit THEN debit
        ELSE IF i - 1 = ColCredit THEN credit
        ELSE NaN]

AcctChoices ==
    { <<0, Txt(<<"4", "1", " ">> \o KwAd)>>,
      <<0, Txt(KwRent)>>,
      <<0, Txt(KwGov)>>,
      <<0, Txt(KwMisc)>>,
      <<SearchWindow - 1, Txt(KwTicket)>>,
      <<SearchWindow, Txt(KwTicket)>>,
      <<0, Txt(<<"yun", "shou", "ru">>)>> }

BaseAcct == <<0, Txt(KwTicket)>>

\* <<department, summary>>
RouteChoices ==
    { <<NaN, Txt(KwRouteA \o <<"piao">>)>>,
      <<Txt(KwRouteB), NaN>>,
      <<Txt(KwRouteB), Txt(KwRouteA)>>,
      <<NaN, Txt(<<"x">> \o KwRouteC)>>,
      <<NaN, Txt(KwRouteD)>>,
      <<Txt(<<"dan">>), Txt(<<"hai">>)>> }

BaseRoute == <<NaN, Txt(<<"piao">>)>>

\* <<debit, credit>>
AmountChoices ==
    { <<Num(200), Num(1001)>>,
      <<Txt(<<"x">>), NaN>>,
      <<Txt(<<"3", "0", "0">>), Num(0)>>,
      <<Num(50), Txt(<<"x">>)>> }

BaseAmount == <<NaN, Num(1000)>>

RowPool ==
    {MkRow(BaseAcct[1], BaseAcct[2], BaseRoute[1], BaseRoute[2],
           BaseAmount[1], BaseAmount[2])}
    \cup {MkRow(a[1], a[2], BaseRoute[1], BaseRoute[2], BaseAmount[1], BaseAmount[2])
            : a \in AcctChoices}
    \cup {MkRow(BaseAcct[1], BaseAcct[2], r[1], r[2], BaseAmount[1], BaseAmount[2])
            : r \in RouteChoices}
    \cup {MkRow(BaseAcct[1], BaseAcct[2], BaseRoute[1], BaseRoute[2], m[1], m[2])
            : m \in AmountChoices}

RowSeqs == UNION {[1..n -> RowPool] : n \in 1..MaxRows}

\* pd.read_excel(header=None): an empty sheet is the frame with no rows and
\* no columns; any other sheet has at least one row and one column.
Ledgers ==
    {[ncols |-> 0, rows |-> <<>>]}
    \cup {[ncols |-> n, rows |-> [i \in 1..Len(rs) |-> SubSeq(rs[i], 1, n)]]
            : n \in 1..MaxCols, rs \in RowSeqs}

\* ------------------------------------------------------------ session
NoFile == [ncols |-> 0, rows |-> <<>>]

NotRun == Outcome("NotRun", <<>>, None, 0, <<>>, <<>>, <<>>)

NTabs == Len(TabKeyword)

Init ==
    /\ pc = "upload"
    /\ tab = 0
    /\ df = NoFile
    /\ shown = [k \in 1..NTabs |-> NotRun]

\* Lines 122-130: the file is read and the tabs are built.
Upload ==
    /\ pc = "upload"
    /\ \E ledger \in Ledgers : df' = ledger
    /\ pc' = "tabs"
    /\ tab' = 1
    /\ UNCHANGED shown

\* Lines 124, 233-234: read_excel raises, the outer handler reports it.
UploadFails ==
    /\ pc = "upload"
    /\ pc' = "error"
    /\ UNCHANGED <<tab, df, shown>>

\* One "with tabN:" block whose call returns: the outcome is presented and
\* the script goes on to the next block.
RunTab ==
    /\ pc = "tabs"
    /\ LET out == calculate_revenue_by_keyword(df, TabKeyword[tab])
       IN /\ out.kind # "Raised"
          /\ shown' = [shown EXCEPT ![tab] = out]
    /\ IF tab = NTabs THEN pc' = "done" /\ tab' = tab
       ELSE pc' = "tabs" /\ tab' = tab + 1
    /\ UNCHANGED df

\* One "with tabN:" block whose call raises: control leaves the try block
\* of line 123 for the handler of lines 233-234; the rest is skipped.
TabRaises ==
    /\ pc = "tabs"
    /\ calculate_revenue_by_keyword(df, TabKeyword[tab]).kind = "Raised"
    /\ pc' = "error"
    /\ UNCHANGED <<tab, df, shown>>

Next == Upload \/ UploadFails \/ RunTab \/ TabRaises

Spec == Init /\ [][Next]_vars

\* ================================================================ claims
Ran(k) == shown[k].kind # "NotRun"

Succeeded(k) == shown[k].kind = "Success"

RECURSIVE SumAmount(_)
SumAmount(recs) ==
    IF recs = <<>> THEN 0 ELSE Head(recs).amount + SumAmount(Tail(recs))

RECURSIVE SumCreditMinusDebit(_)
SumCreditMinusDebit(recs) ==
    IF recs = <<>> THEN 0
    ELSE (Head(recs).credit - Head(recs).debit) + SumCreditMinusDebit(Tail(recs))

SumWhere(recs, Keep(_)) == SumAmount(SelectSeq(recs, Keep))

HasNoRouteKeyword(text) ==
    /\ ~Contains(text, KwRouteA)
    /\ ~Contains(text, KwRouteB)
    /\ ~Contains(text, KwRouteC)
    /\ ~Contains(text, KwRouteD)

\* C1: for every category whose computation succeeds, the five per-route
\* aggregates add up to the returned grand total, and that total is the sum
\* of credit - debit over the rows the row filter selected (one record per
\* selected row), also for passenger revenue after the redistribution.
C1_AggregatesEqualTotal ==
    \A k \in 1..NTabs :
        Succeeded(k) =>
            /\ Len(shown[k].result) = 5
            /\ shown[k].result[1] + shown[k].result[2] + shown[k].result[3]
                 + shown[k].result[4] + shown[k].result[5] = shown[k].total_amount
            /\ Len(shown[k].classified) = Len(shown[k].matched)
            /\ shown[k].total_amount = SumCreditMinusDebit(shown[k].classified)

\* A passenger computation that split a row of odd net amount, and an
\* advertising computation with an unassigned row, both with a total.
C1_Witness ==
    /\ Succeeded(2)
    /\ \E i \in 1..Len(shown[2].classified) :
          /\ shown[2].classified[i].route = Unassigned
          /\ shown[2].classified[i].amount = 2 * 801
    /\ shown[2].total_amount # 0
    /\ Succeeded(1)
    /\ shown[1].result[5] # 0

\* C2: for passenger revenue, every record classified Unassigned is replaced
\* by exactly two derived records, one RouteA and one RouteB, each carrying
\* half of its net amount, debit and credit; records already on a route pass
\* through unchanged (here: in their order, ahead of the RouteA halves, which
\* precede the RouteB halves); the total net amount is conserved and no
\* Unassigned record remains.
C2_Redistribution ==
    Succeeded(2) =>
        LET before == shown[2].classified
            after == shown[2].revenue_df
            kept == SelectSeq(before, LAMBDA r : r.route # Unassigned)
            split == SelectSeq(before, LAMBDA r : r.route = Unassigned)
            nk == Len(kept)
            ns == Len(split)
        IN /\ Len(after) = nk + 2 * ns
           /\ SubSeq(after, 1, nk) = kept
           /\ \A i \in 1..ns :
                LET a == after[nk + i]
                    b == after[nk + ns + i]
                IN /\ a.route = RouteA
                   /\ b.route = RouteB
                   /\ a.src = split[i].src /\ b.src = split[i].src
                   /\ 2 * a.amount = split[i].amount
                   /\ 2 * b.amount = split[i].amount
                   /\ 2 * a.debit = split[i].debit
                   /\ 2 * b.debit = split[i].debit
                   /\ 2 * a.credit = split[i].credit
                   /\ 2 * b.credit = split[i].credit
           /\ SumAmount(after) = SumAmount(before)
           /\ \A i \in 1..Len(after) : after[i].route # Unassigned

\* A passenger computation with one record kept on its route and one
\* Unassigned record of odd net amount split in two.
C2_Witness ==
    /\ Succeeded(2)
    /\ Len(shown[2].classified) = 2
    /\ Len(shown[2].revenue_df) = 3
    /\ \E i \in 1..2 :
          /\ shown[2].classified[i].route = Unassigned
          /\ shown[2].classified[i].amount = 2 * 801
    /\ shown[2].revenue_df[2].amount = 801
    /\ shown[2].revenue_df[3].amount = 801

\* C3: once a ledger is loaded, every one of the five categories is computed
\* and presented, whatever happens in the categories before it.
C3_AllCategoriesReported ==
    (tab >= 1 /\ pc \in {"done", "error"}) => \A k \in 1..NTabs : Ran(k)

EmptyLedger(d) == d.rows = <<>>

\* C4: for the empty ledger and every category keyword,
\* calculate_revenue_by_keyword returns ColumnNotFound naming the keyword.
C4_EmptyLedgerColumnNotFound ==
    (pc = "tabs" /\ EmptyLedger(df)) =>
        \A k \in 1..NTabs :
            LET out == calculate_revenue_by_keyword(df, TabKeyword[k])
            IN /\ out.kind = "ColumnNotFound"
               /\ out.keyword = TabKeyword[k]
               /\ out.result = None

\* No cell of the first SearchWindow columns of d contains kw.
KeywordAbsent(d, kw) ==
    \A r \in 1..Len(d.rows) :
        \A c \in 1..Len(d.rows[r]) :
            c <= SearchWindow => ~Contains(AsStr(d.rows[r][c]), kw)

\* C5: for every ledger, of any number of columns, in which no cell of the
\* first 10 columns contains the keyword, calculate_revenue_by_keyword
\* returns ColumnNotFound carrying the keyword, with no aggregate table.
C5_AbsentKeywordColumnNotFound ==
    pc = "tabs" =>
        \A k \in 1..NTabs :
            KeywordAbsent(df, TabKeyword[k]) =>
                LET out == calculate_revenue_by_keyword(df, TabKeyword[k])
                IN /\ out.kind = "ColumnNotFound"
                   /\ out.keyword = TabKeyword[k]
                   /\ out.result = None

\* C6: whenever the ledger has fewer than 8 columns, so that a fixed-position
\* field is missing, a category whose rows are found gets the FieldReadError
\* outcome (and the call does not raise).
C6_TooFewColumnsFieldReadError ==
    (pc = "tabs" /\ df.ncols < ColCredit + 1) =>
        \A k \in 1..NTabs :
            ~KeywordAbsent(df, TabKeyword[k]) =>
                calculate_revenue_by_keyword(df, TabKeyword[k]).kind
                    = "FieldReadError"

\* C7: the route of every classified record is the first of RouteA, RouteB,
\* RouteC, RouteD whose keyword occurs in its classification text, and
\* Unassigned exactly when none occurs.
C7_FirstMatchRoute ==
    \A k \in 1..NTabs :
        \A i \in 1..Len(shown[k].classified) :
            LET r == shown[k].classified[i]
                a == Contains(r.info, KwRouteA)
                b == Contains(r.info, KwRouteB)
                c == Contains(r.info, KwRouteC)
                d == Contains(r.info, KwRouteD)
            IN /\ (r.route = RouteA) <=> a
               /\ (r.route = RouteB) <=> (~a /\ b)
               /\ (r.route = RouteC) <=> (~a /\ ~b /\ c)
               /\ (r.route = RouteD) <=> (~a /\ ~b /\ ~c /\ d)
               /\ (r.route = Unassigned) <=> (~a /\ ~b /\ ~c /\ ~d)

\* A record whose text holds both the RouteA and the RouteB keyword, on
\* RouteA.
C7_Witness ==
    \E k \in 1..NTabs :
        \E i \in 1..Len(shown[k].classified) :
            /\ Contains(shown[k].classified[i].info, KwRouteA)
            /\ Contains(shown[k].classified[i].info, KwRouteB)
            /\ shown[k].classified[i].route = RouteA

\* A cell that is blank, or text with a character that is no digit.
NotNumericCell(c) ==
    \/ c.t = "nan"
    \/ c.t = "str" /\ \E j \in 1..Len(c.s) : ~IsDigit(c.s[j]) /\ c.s[j] # "-"

\* C8: for every filtered row, a debit or credit cell that is not numeric
\* counts as 0 and gives no error outcome: the record's net amount is
\* credit - 0, 0 - debit, or 0 when both sides are not numeric.
C8_NonNumericIsZero ==
    \A k \in 1..NTabs :
        \A i \in 1..Len(shown[k].matched) :
            LET row == shown[k].matched[i]
                badDebit == InRange(row, ColDebit)
                              /\ NotNumericCell(Iloc(row, ColDebit))
                badCredit == InRange(row, ColCredit)
                              /\ NotNumericCell(Iloc(row, ColCredit))
            IN (badDebit \/ badCredit) =>
                  /\ Succeeded(k)
                  /\ shown[k].classified[i].src = row
                  /\ badDebit => shown[k].classified[i].debit = 0
                  /\ badCredit => shown[k].classified[i].credit = 0
                  /\ shown[k].classified[i].amount =
                        shown[k].classified[i].credit
                          - shown[k].classified[i].debit
                  /\ (badDebit /\ badCredit) => shown[k].classified[i].amount = 0

\* Rows with a text debit and a blank credit (net 0), with a text credit
\* and a numeric debit (net 0 - debit), and a blank debit and a numeric
\* credit (net credit - 0), all in successful computations.
C8_Witness ==
    /\ \E k \in 1..NTabs : \E i \in 1..Len(shown[k].classified) :
          LET r == shown[k].classified[i]
          IN /\ Len(r.src) > ColCredit
             /\ Iloc(r.src, ColDebit).t = "str"
             /\ Iloc(r.src, ColCredit).t = "nan"
             /\ r.amount = 0
    /\ \E k \in 1..NTabs : \E i \in 1..Len(shown[k].classified) :
          LET r == shown[k].classified[i]
          IN /\ Len(r.src) > ColCredit
             /\ Iloc(r.src, ColCredit).t = "str"
             /\ r.amount = 0 - 2 * 50

\* C9: for every category other than passenger revenue no record is split:
\* the records given to the aggregator are the classified filtered rows, one
\* per row, and every row without a route keyword adds its whole net amount
\* to the Unassigned aggregate and nothing to RouteA or RouteB.
C9_OnlyPassengerRedistributes ==
    \A k \in 1..NTabs :
        (Succeeded(k) /\ TabKeyword[k] # KwTicket) =>
            /\ shown[k].revenue_df = shown[k].classified
            /\ Len(shown[k].revenue_df) = Len(shown[k].matched)
            /\ \A i \in 1..Len(shown[k].matched) :
                  shown[k].revenue_df[i].src = shown[k].matched[i]
            /\ shown[k].result[5] =
                  SumWhere(shown[k].classified,
                           LAMBDA r : HasNoRouteKeyword(r.info))
            /\ shown[k].result[1] =
                  SumWhere(shown[k].classified,
                           LAMBDA r : Contains(r.info, KwRouteA))
            /\ shown[k].result[2] =
                  SumWhere(shown[k].classified,
                           LAMBDA r : ~Contains(r.info, KwRouteA)
                                       /\ Contains(r.info, KwRouteB))

\* An advertising computation whose row has no route keyword: its whole
\* amount is in the Unassigned aggregate.
C9_Witness ==
    /\ Succeeded(1)
    /\ \E i \in 1..Len(shown[1].classified) :
          /\ HasNoRouteKeyword(shown[1].classified[i].info)
          /\ shown[1].classified[i].amount = 2 * 1000
    /\ shown[1].result[5] = 2 * 1000
    /\ shown[1].result[1] = 0
    /\ shown[1].result[2] = 0

\* C10: the "no data" outcome is never returned: when the locator finds a
\* column, the row filter on it selects at least one row, so a call returns
\* Success, ColumnNotFound or FieldReadError.
C10_NoMatchingRowsUnreachable ==
    \A k \in 1..NTabs :
        /\ shown[k].kind # "NoMatchingRows"
        /\ shown[k].kind \in {"NotRun", "Success", "ColumnNotFound", "FieldReadError"}
        /\ shown[k].kind \in {"Success", "FieldReadError"} => shown[k].matched # <<>>

\* A computation whose filter kept one row of a two-row ledger, and a
\* computation that ended in FieldReadError.
C10_Witness ==
    /\ \E k \in 1..NTabs :
          /\ Succeeded(k)
          /\ Len(df.rows) = 2
          /\ Len(shown[k].matched) = 1
    /\ \E k \in 1..NTabs : shown[k].kind = "ColumnNotFound"

====
